---------------------------- MODULE Spec2Model ----------------------------
(***************************************************************************)
(* State-machine model of the patio-cover visualizer                       *)
(* (src/patio-cover-app/src/App.jsx).  The file holds two builds of the    *)
(* application: the first (lines 1-627) with EXIF handling, the rear-camera *)
(* request with fallback, the 'Retry Camera' button, number inputs and the  *)
(* per-path model cache; the second (lines 628-1030) without them.         *)
(* build selects which one runs.                                            *)
(*                                                                         *)
(* Numbers: every slider quantity is kept in hundredths (zoom 1.0 = 100,   *)
(* rotation 6.28 = 628); pan, mouse coordinates and sizes are pixels.      *)
(***************************************************************************)
EXTENDS Integers, Sequences, FiniteSets

VARIABLES
  build,          \* 1 or 2: which App() of App.jsx runs
  mounted,        \* the App component is mounted
  step,           \* useState('capture')
  photo,          \* useState(null): the photo shown in preview
  imageRotation,  \* useState(0), first build
  exifPending,    \* EXIF.getData callbacks not yet called
  nPhotos,        \* photos acquired so far
  streamRef,      \* streamRef.current: a stream id, 0 for null
  videoSrc,       \* videoRef.current.srcObject: a stream id, 0 for none
  liveTracks,     \* streams whose tracks have not been stopped
  nStreams,       \* streams handed out by getUserMedia so far
  pendingRear,    \* startCamera invocations awaiting the rear-camera request
  pendingAny,     \* startCamera invocations awaiting the unconstrained request
  nCalls,         \* startCamera invocations so far
  invocations,    \* those invocations: what each has requested, how it ended
  alerts,         \* kinds of alert() shown so far
  manifest,       \* how fetch('/models.json') settled, or that it is pending
  modelOptions,   \* useState([])
  selectedModel,  \* useState(null)
  model,          \* PatioCover: useState(null)
  modelCache,     \* PatioCover: modelCache.current
  loads,          \* GLTFLoader.load calls whose callbacks have not run
  nLoads,         \* GLTFLoader.load calls so far
  resolved,       \* paths whose onLoad has run in the mounted PatioCover
  loaded,         \* scenes an onLoad has given a mounted PatioCover, ever
  patioPosition,  \* useState([0, 0, 0])
  rotationX,      \* useState(Math.PI)
  rotationY,      \* useState(Math.PI)
  scale,          \* useState(1)
  zoom,           \* useState(1)
  backgroundZoom, \* useState(1)
  pan,            \* useState({ x: 0, y: 0 })
  isDragging,     \* useState(false)
  dragStart,      \* useState({ x: 0, y: 0 })
  ev              \* the last event handled, with the values it found

cameraVars == <<streamRef, videoSrc, liveTracks, nStreams, pendingRear, pendingAny, nCalls,
                invocations>>

photoVars == <<photo, imageRotation, exifPending, nPhotos>>

catalogVars == <<manifest, modelOptions, selectedModel>>

coverVars == <<model, modelCache, loads, nLoads, resolved, loaded>>

overlayVars == <<patioPosition, rotationX, rotationY, scale>>

viewVars == <<zoom, backgroundZoom, pan, isDragging, dragStart>>

vars == <<build, mounted, step, alerts, cameraVars, photoVars, catalogVars, coverVars,
          overlayVars, viewVars, ev>>

---------------------------------------------------------------------------
(* Bounds of the model *)

MaxStartCamera == 3

MaxLoads == 3

MaxPhotos == 2

---------------------------------------------------------------------------
(* JavaScript values *)

Null == "null"

Undefined == "undefined"

\* the result of parseFloat on text that does not start with a number
NaN == -999999

IsNaN(v) == v = NaN

\* JavaScript truthiness of a string-or-null value (the operand of ||, &&)
Truthy(v) == v \notin {Null, Undefined, ""}

Max(a, b) == IF a >= b THEN a ELSE b

Min(a, b) == IF a <= b THEN a ELSE b

Origin == [x |-> 0, y |-> 0]

\* an event record: the handler that ran, the value it was handed, the value
\* of the field it drives and (for the zoom fields) the pan, both as found
Event(op, raw, old) ==
  [op |-> op, raw |-> raw, old |-> old,
   oldPan |-> IF op \in {"zoom", "backgroundZoom"} THEN pan ELSE [x |-> 0, y |-> 0]]


---------------------------------------------------------------------------
(* PatioCover: the overlay component and its asynchronous asset loads *)

\* {selectedModel && <PatioCover .../>} inside the preview section
CoverShown(m, s, sel) == m /\ s = "preview" /\ Truthy(sel)

Scene(path, id) == [path |-> path, id |-> id]

\* the null of useState(null) in PatioCover: no scene
NoScene == [path |-> Null, id |-> 0]

\* modelCache.current.has(modelPath)
CacheHas(path) == \E s \in modelCache : s.path = path

\* modelCache.current.get(modelPath)
CacheGet(path) == CHOOSE s \in modelCache : s.path = path

\* modelCache.current.set(modelPath, scene)
CacheSet(path, scene) == {s \in modelCache : s.path # path} \cup {scene}

\* the loads of an unmounted PatioCover: their callbacks still run, on a
\* component (and a cache) that is gone
Stale(ls) == {[l EXCEPT !.cur = FALSE] : l \in ls}

\* loader.load(modelPath, onLoad, undefined, onError)
LoaderLoad(path, ls) ==
  /\ nLoads < MaxLoads
  /\ nLoads' = nLoads + 1
  /\ loads' = ls \cup {[path |-> path, id |-> nLoads + 1, cur |-> TRUE]}

\* the effect of PatioCover, run on mount and when modelPath changes
CoverEffect(path, fresh) ==
  IF build = 1 /\ ~fresh /\ CacheHas(path)
  THEN /\ model' = CacheGet(path)
       /\ UNCHANGED <<modelCache, loads, nLoads, resolved, loaded>>
  ELSE /\ model' = (IF fresh THEN NoScene ELSE model)
       /\ modelCache' = (IF fresh THEN {} ELSE modelCache)
       /\ resolved' = (IF fresh THEN {} ELSE resolved)
       /\ loaded' = loaded
       /\ LoaderLoad(path, IF fresh THEN Stale(loads) ELSE loads)

\* what a render with the given mounted, step and selectedModel does to
\* PatioCover: unmount, mount (fresh state, effect), effect on a new path
CoverRender(m2, s2, sel2) ==
  LET was == CoverShown(mounted, step, selectedModel)
      now == CoverShown(m2, s2, sel2)
  IN  IF ~now
      THEN /\ model' = NoScene
           /\ modelCache' = {}
           /\ resolved' = {}
           /\ loaded' = loaded
           /\ loads' = Stale(loads)
           /\ nLoads' = nLoads
      ELSE IF ~was
      THEN CoverEffect(sel2, TRUE)
      ELSE IF sel2 = selectedModel
      THEN UNCHANGED coverVars
      ELSE CoverEffect(sel2, FALSE)

\* onLoad of a load: (gltf) => { cache.set(modelPath, scene); setModel(scene) }
LoadSucceeds(l) ==
  /\ l \in loads
  /\ loads' = loads \ {l}
  /\ IF l.cur
     THEN /\ model' = Scene(l.path, l.id)
          /\ modelCache' = (IF build = 1 THEN CacheSet(l.path, Scene(l.path, l.id))
                            ELSE modelCache)
          /\ resolved' = resolved \cup {l.path}
          /\ loaded' = loaded \cup {Scene(l.path, l.id)}
     ELSE UNCHANGED <<model, modelCache, resolved, loaded>>
  /\ ev' = Event("loadSucceeds", 0, 0)
  /\ UNCHANGED <<build, mounted, step, alerts, nLoads, cameraVars, photoVars,
                 catalogVars, overlayVars, viewVars>>

\* onError of a load: console.error and alert, nothing else
LoadFails(l) ==
  /\ l \in loads
  /\ loads' = loads \ {l}
  /\ alerts' = alerts \cup {"model"}
  /\ ev' = Event("loadFails", 0, 0)
  /\ UNCHANGED <<build, mounted, step, model, modelCache, nLoads, resolved, loaded, cameraVars,
                 photoVars, catalogVars, overlayVars, viewVars>>

---------------------------------------------------------------------------
(* Camera: startCamera, its requests, and the effect on [step] *)

\* startCamera up to its first await: the first build asks for the rear
\* camera, the second for any camera
\* an invocation of startCamera at its first await: the requests it has
\* issued (rear: with facingMode 'environment', any: { video: true }), the
\* rejections it has caught, the stream it stored and how it ended
NewInvocation ==
  [rear |-> IF build = 1 THEN 1 ELSE 0, any |-> IF build = 1 THEN 0 ELSE 1,
   failed |-> 0, stream |-> 0, end |-> "pending"]

\* the invocations awaiting the rear-camera request
AtRear(invs) ==
  {i \in 1..Len(invs) : invs[i].end = "pending" /\ invs[i].any = 0}

\* the invocations awaiting the unconstrained request
AtAny(invs) ==
  {i \in 1..Len(invs) : invs[i].end = "pending" /\ invs[i].any > 0}

StartCamera(rear, any, invs) ==
  /\ nCalls < MaxStartCamera
  /\ nCalls' = nCalls + 1
  /\ pendingRear' = (IF build = 1 THEN rear + 1 ELSE rear)
  /\ pendingAny' = (IF build = 1 THEN any ELSE any + 1)
  /\ invocations' = Append(invs, NewInvocation)

\* streamRef.current.getTracks().forEach((track) => track.stop())
StopTracks(ref) == liveTracks \ {ref}

\* StepEffect with the call of startCamera missing from the effect
StepEffectNoStart(s2, rear, any, invs) ==
  /\ liveTracks' = StopTracks(streamRef)
  /\ videoSrc' = 0
  /\ UNCHANGED <<streamRef, nStreams>>
  /\ pendingRear' = rear
  /\ pendingAny' = any
  /\ nCalls' = nCalls
  /\ invocations' = invs

\* the effect on [step] when step changes to s2: the cleanup of the previous
\* run stops the tracks of streamRef.current, the <video> of the capture
\* section is replaced, and startCamera runs if the new step is capture
StepEffect(s2, rear, any, invs) ==
  /\ liveTracks' = StopTracks(streamRef)
  /\ videoSrc' = 0
  /\ UNCHANGED <<streamRef, nStreams>>
  /\ IF s2 = "capture"
     THEN StartCamera(rear, any, invs)
     ELSE /\ pendingRear' = rear
          /\ pendingAny' = any
          /\ nCalls' = nCalls
          /\ invocations' = invs

\* a getUserMedia promise resolves: streamRef.current = stream, and the
\* stream is attached to the <video> if there is one
StreamGranted ==
  /\ nStreams' = nStreams + 1
  /\ streamRef' = nStreams + 1
  /\ liveTracks' = liveTracks \cup {nStreams + 1}
  /\ videoSrc' = (IF mounted /\ step = "capture" THEN nStreams + 1 ELSE videoSrc)

\* invocation i stores the stream it was given and returns
Stored(invs, i) == [invs EXCEPT ![i].stream = nStreams + 1, ![i].end = "stream"]

\* invocation i catches the rejection of its rear-camera request and issues
\* the unconstrained request
Fallback(invs, i) == [invs EXCEPT ![i].failed = @ + 1, ![i].any = @ + 1]

\* invocation i catches the rejection of its unconstrained request, alerts
\* and returns
Warned(invs, i) == [invs EXCEPT ![i].failed = @ + 1, ![i].end = "warning"]

RearCameraGranted ==
  /\ build = 1
  /\ pendingRear > 0
  /\ pendingRear' = pendingRear - 1
  /\ StreamGranted
  /\ \E i \in AtRear(invocations) : invocations' = Stored(invocations, i)
  /\ ev' = Event("rearCameraGranted", 0, 0)
  /\ UNCHANGED <<build, mounted, step, alerts, pendingAny, nCalls, photoVars,
                 catalogVars, coverVars, overlayVars, viewVars>>

\* the rear-camera request is rejected: the catch issues the fallback request
RearCameraDenied ==
  /\ build = 1
  /\ pendingRear > 0
  /\ pendingRear' = pendingRear - 1
  /\ pendingAny' = pendingAny + 1
  /\ \E i \in AtRear(invocations) : invocations' = Fallback(invocations, i)
  /\ ev' = Event("rearCameraDenied", 0, 0)
  /\ UNCHANGED <<build, mounted, step, alerts, streamRef, videoSrc, liveTracks,
                 nStreams, nCalls, photoVars, catalogVars, coverVars, overlayVars,
                 viewVars>>

AnyCameraGranted ==
  /\ pendingAny > 0
  /\ pendingAny' = pendingAny - 1
  /\ StreamGranted
  /\ \E i \in AtAny(invocations) : invocations' = Stored(invocations, i)
  /\ ev' = Event("anyCameraGranted", 0, 0)
  /\ UNCHANGED <<build, mounted, step, alerts, pendingRear, nCalls, photoVars,
                 catalogVars, coverVars, overlayVars, viewVars>>

\* the unconstrained request is rejected: alert; the first build also calls
\* setStep('capture'), which re-renders (and re-runs the effect on [step])
\* only if the step was preview
AnyCameraDenied ==
  /\ pendingAny > 0
  /\ alerts' = alerts \cup {"camera"}
  /\ ev' = Event("anyCameraDenied", 0, 0)
  /\ \E i \in AtAny(invocations) :
       IF build = 1 /\ mounted /\ step = "preview"
       THEN /\ step' = "capture"
            /\ StepEffect("capture", pendingRear, pendingAny - 1, Warned(invocations, i))
            /\ CoverRender(mounted, "capture", selectedModel)
       ELSE /\ pendingAny' = pendingAny - 1
            /\ invocations' = Warned(invocations, i)
            /\ UNCHANGED <<step, pendingRear, nCalls, streamRef, videoSrc, liveTracks,
                           nStreams, coverVars>>
  /\ UNCHANGED <<build, mounted, photoVars, catalogVars, overlayVars, viewVars>>

\* the 'Retry Camera' button of the first build: onClick={startCamera}
RetryCamera ==
  /\ build = 1
  /\ mounted
  /\ step = "capture"
  /\ StartCamera(pendingRear, pendingAny, invocations)
  /\ ev' = Event("retryCamera", 0, 0)
  /\ UNCHANGED <<build, mounted, step, alerts, streamRef, videoSrc, liveTracks,
                 nStreams, photoVars, catalogVars, coverVars, overlayVars, viewVars>>

---------------------------------------------------------------------------
(* Photo acquisition: capturePhoto, handleFileUpload, the EXIF callback *)

\* the Orientation tag of a file without one (EXIF.getTag gives undefined)
NoTag == 0

NoPhoto == [kind |-> "none", id |-> 0, tag |-> NoTag, w |-> 0, h |-> 0]

\* natural sizes of the photos used, in pixels
ImageSizes == {[w |-> 1000, h |-> 300]}

\* the files the user may pick: an Orientation tag and a natural size
Files == {[tag |-> t, w |-> s.w, h |-> s.h] : t \in {NoTag, 1, 3, 6, 8}, s \in ImageSizes}

\* video.videoWidth, video.videoHeight: 0 while no stream is attached
VideoFrames == IF videoSrc = 0 THEN {[w |-> 0, h |-> 0]} ELSE ImageSizes

\* Rotation with the cases 6 and 8 exchanged
RotationExchanged(orientation) ==
  CASE orientation = 3 -> 180
    [] orientation = 6 -> 0 - 90
    [] orientation = 8 -> 90
    [] OTHER -> 0

\* the switch on the Orientation tag in the EXIF callback
Rotation(orientation) ==
  CASE orientation = 3 -> 180
    [] orientation = 6 -> 90
    [] orientation = 8 -> 0 - 90
    [] OTHER -> 0

\* CapturedPhoto with setPhoto(photoData) missing from capturePhoto
CapturedPhotoOmitted(frame) == photo

\* the photo capturePhoto sets: canvas.toDataURL of the frame drawn, a string
\* even when the frame is empty
CapturedPhoto(frame) ==
  [kind |-> "camera", id |-> nPhotos + 1, tag |-> NoTag, w |-> frame.w, h |-> frame.h]

\* capturePhoto: the <video> of the capture section always exists, so the
\* frame is drawn whatever the stream; setPhoto, setStep('preview'), then the
\* tracks of streamRef.current are stopped (again by the effect's cleanup)
CapturePhoto(frame) ==
  /\ mounted
  /\ step = "capture"
  /\ nPhotos < MaxPhotos
  /\ frame \in VideoFrames
  /\ nPhotos' = nPhotos + 1
  /\ photo' = CapturedPhoto(frame)
  /\ step' = "preview"
  /\ StepEffect("preview", pendingRear, pendingAny, invocations)
  /\ CoverRender(mounted, "preview", selectedModel)
  /\ ev' = Event("capturePhoto", 0, 0)
  /\ UNCHANGED <<build, mounted, alerts, imageRotation, exifPending, catalogVars,
                 overlayVars, viewVars>>

\* handleFileUpload with a file chosen: setPhoto, setStep('preview'); the
\* first build also starts EXIF.getData
HandleFileUpload(file) ==
  /\ mounted
  /\ step = "capture"
  /\ nPhotos < MaxPhotos
  /\ file \in Files
  /\ nPhotos' = nPhotos + 1
  /\ photo' = [kind |-> "file", id |-> nPhotos + 1, tag |-> file.tag,
               w |-> file.w, h |-> file.h]
  /\ exifPending' = (IF build = 1
                     THEN exifPending \cup {[id |-> nPhotos + 1, tag |-> file.tag]}
                     ELSE exifPending)
  /\ step' = "preview"
  /\ StepEffect("preview", pendingRear, pendingAny, invocations)
  /\ CoverRender(mounted, "preview", selectedModel)
  /\ ev' = Event("handleFileUpload", 0, 0)
  /\ UNCHANGED <<build, mounted, alerts, imageRotation, catalogVars, overlayVars,
                 viewVars>>

\* the callback of EXIF.getData: setImageRotation(rotation)
ExifDone(e) ==
  /\ e \in exifPending
  /\ exifPending' = exifPending \ {e}
  /\ imageRotation' = (IF mounted THEN Rotation(e.tag) ELSE imageRotation)
  /\ ev' = Event("exifDone", e.tag, e.id)
  /\ UNCHANGED <<build, mounted, step, alerts, photo, nPhotos, cameraVars,
                 catalogVars, coverVars, overlayVars, viewVars>>

\* the component unmounts: the cleanup of the effect on [step] runs
Unmount ==
  /\ mounted
  /\ mounted' = FALSE
  /\ liveTracks' = StopTracks(streamRef)
  /\ videoSrc' = 0
  /\ CoverRender(FALSE, step, selectedModel)
  /\ ev' = Event("unmount", 0, 0)
  /\ UNCHANGED <<build, step, alerts, streamRef, nStreams, pendingRear, pendingAny,
                 nCalls, invocations, photoVars, catalogVars, overlayVars, viewVars>>

---------------------------------------------------------------------------
(* Model catalog: the fetch of /models.json and the <select> *)

EntryA == [value |-> "/a.gltf", label |-> "A"]

EntryB == [value |-> "/b.gltf", label |-> "B"]

\* {label: "C"}: an entry without a value
EntryNoValue == [value |-> Undefined, label |-> "C"]

\* {value: "", label: "D"}
EntryEmptyValue == [value |-> "", label |-> "D"]

\* how the fetch of the manifest may end; models is the array when the body
\* is an object whose models field is an array
ManifestOutcomes ==
  {[kind |-> k, models |-> <<>>] :
      k \in {"networkError", "httpError", "badJson", "nullBody", "noModels",
             "modelsNotArray", "models"}}
  \cup {[kind |-> "models", models |-> ms] :
          ms \in {<<EntryA>>, <<EntryA, EntryB>>, <<EntryB, EntryA>>,
                  <<EntryNoValue, EntryA>>, <<EntryEmptyValue, EntryB>>}}

\* the fetch has not settled
ManifestPending == [kind |-> "pending", models |-> <<>>]

\* the promise chain reaches .catch: fetch rejected, !response.ok,
\* response.json() rejected, data.models of null thrown, or the explicit throw
ManifestThrows(o) ==
  \/ o.kind \in {"networkError", "httpError", "badJson", "nullBody"}
  \/ o.kind = "noModels"
  \/ o.kind = "modelsNotArray"
  \/ Len(o.models) = 0

\* data.models[0]?.value || null
FirstValue(ms) == IF Truthy(ms[1].value) THEN ms[1].value ELSE Null

\* the list set by .catch
DefaultOptions ==
  IF build = 1
  THEN <<[value |-> "/default-model.gltf", label |-> "Default Model"]>>
  ELSE <<[value |-> "", label |-> "Default Model (Placeholder)"]>>

\* DefaultSelected with setSelectedModel missing from .catch
DefaultSelectedOmitted == selectedModel

\* the selection set by .catch
DefaultSelected == IF build = 1 THEN "/default-model.gltf" ELSE ""

\* the fetch of /models.json settles
ManifestDone(o) ==
  /\ manifest = ManifestPending
  /\ o \in ManifestOutcomes
  /\ manifest' = o
  /\ alerts' = (IF ManifestThrows(o) THEN alerts \cup {"catalog"} ELSE alerts)
  /\ IF mounted
     THEN /\ modelOptions' = (IF ManifestThrows(o) THEN DefaultOptions ELSE o.models)
          /\ selectedModel' = (IF ManifestThrows(o) THEN DefaultSelected
                               ELSE FirstValue(o.models))
          /\ CoverRender(mounted, step, selectedModel')
     ELSE UNCHANGED <<modelOptions, selectedModel, coverVars>>
  /\ ev' = Event("manifestDone", 0, 0)
  /\ UNCHANGED <<build, mounted, step, cameraVars, photoVars, overlayVars, viewVars>>

\* the value of an <option value={option.value}>: without a value attribute
\* it is the option's text
OptionValue(option) == IF option.value = Undefined THEN option.label ELSE option.value

\* value={selectedModel || ''}
SelectValue == IF Truthy(selectedModel) THEN selectedModel ELSE ""

\* the option the <select> shows: the first whose value is the select's, the
\* first option if none is
DisplayedIndex ==
  IF \E i \in 1..Len(modelOptions) : OptionValue(modelOptions[i]) = SelectValue
  THEN CHOOSE i \in 1..Len(modelOptions) :
         /\ OptionValue(modelOptions[i]) = SelectValue
         /\ \A j \in 1..(i - 1) : OptionValue(modelOptions[j]) # SelectValue
  ELSE 1

\* onChange of the <select>: the user picks another option
SelectModel(i) ==
  /\ mounted
  /\ step = "preview"
  /\ i \in 1..Len(modelOptions)
  /\ i # DisplayedIndex
  /\ selectedModel' = OptionValue(modelOptions[i])
  /\ CoverRender(mounted, step, selectedModel')
  /\ ev' = Event("selectModel", i, 0)
  /\ UNCHANGED <<build, mounted, step, alerts, manifest, modelOptions,
                 cameraVars, photoVars, overlayVars, viewVars>>

---------------------------------------------------------------------------
(* Transform state: the sliders, the number inputs, Reset Position *)

\* min, max and step attributes of the inputs, in hundredths
ZoomMin == 100

ZoomMax == 300

PositionMin == 0 - 1000

PositionMax == 1000

DepthMin == 0 - 500

DepthMax == 500

RotationMin == 0

RotationMax == 628

ScaleMin == 50

ScaleMax == 200

SliderStep == 10

\* Math.PI, the initial rotationX and rotationY, in hundredths
Pi == 314

Fields == {"zoom", "backgroundZoom", "positionX", "positionY", "positionZ",
           "rotationX", "rotationY", "scale"}

\* the min attribute of the two inputs of a field
AttrMin(f) ==
  CASE f \in {"zoom", "backgroundZoom"} -> ZoomMin
    [] f \in {"positionX", "positionY"} -> PositionMin
    [] f = "positionZ" -> DepthMin
    [] f \in {"rotationX", "rotationY"} -> RotationMin
    [] f = "scale" -> ScaleMin

\* the max attribute of the two inputs of a field
AttrMax(f) ==
  CASE f \in {"zoom", "backgroundZoom"} -> ZoomMax
    [] f \in {"positionX", "positionY"} -> PositionMax
    [] f = "positionZ" -> DepthMax
    [] f \in {"rotationX", "rotationY"} -> RotationMax
    [] f = "scale" -> ScaleMax

\* the state a field's inputs show (value={...})
FieldValue(f) ==
  CASE f = "zoom" -> zoom
    [] f = "backgroundZoom" -> backgroundZoom
    [] f = "positionX" -> patioPosition[1]
    [] f = "positionY" -> patioPosition[2]
    [] f = "positionZ" -> patioPosition[3]
    [] f = "rotationX" -> rotationX
    [] f = "rotationY" -> rotationY
    [] f = "scale" -> scale

\* the value an <input type="range" min max step="0.1"> holds once a value
\* is assigned to it: the default (the middle of the range) for text that is
\* no number, else the value brought into [min, max] and onto the step grid
RangeValue(raw, min, max) ==
  LET v == IF IsNaN(raw) THEN min + (max - min) \div 2 ELSE Max(min, Min(max, raw))
      snapped == min + ((v - min + SliderStep \div 2) \div SliderStep) * SliderStep
  IN  IF snapped > max THEN snapped - SliderStep ELSE snapped

\* PanAfterChange with the reset missing from the backgroundZoom handlers
PanAfterChangeZoomOnly(f) == IF f = "zoom" THEN Origin ELSE pan

\* setPan({ x: 0, y: 0 }) in the onChange of the two zoom fields only
PanAfterChange(f) == IF f \in {"zoom", "backgroundZoom"} THEN Origin ELSE pan

\* the state setters an onChange calls for field f with value v
Commit(f, v) ==
  /\ zoom' = (IF f = "zoom" THEN v ELSE zoom)
  /\ backgroundZoom' = (IF f = "backgroundZoom" THEN v ELSE backgroundZoom)
  /\ patioPosition' = (CASE f = "positionX" -> [patioPosition EXCEPT ![1] = v]
                         [] f = "positionY" -> [patioPosition EXCEPT ![2] = v]
                         [] f = "positionZ" -> [patioPosition EXCEPT ![3] = v]
                         [] OTHER -> patioPosition)
  /\ rotationX' = (IF f = "rotationX" THEN v ELSE rotationX)
  /\ rotationY' = (IF f = "rotationY" THEN v ELSE rotationY)
  /\ scale' = (IF f = "scale" THEN v ELSE scale)
  /\ pan' = PanAfterChange(f)

\* the test of a number input's onChange
NumberAccepted(f, value) ==
  /\ ~IsNaN(value)
  /\ value >= AttrMin(f)
  /\ value <= AttrMax(f)

\* values assigned to a slider, in hundredths, NaN for text that is no number
SliderInputs(f) ==
  CASE f \in {"zoom", "backgroundZoom"} -> {100, 200, 350}
    [] f = "positionX" -> {300, 1200}
    [] f = "positionY" -> {0 - 1200}
    [] f = "positionZ" -> {600, NaN}
    [] f \in {"rotationX", "rotationY"} -> {700}
    [] f = "scale" -> {30}

\* values typed into a number input, in hundredths, NaN for text that
\* parseFloat does not read as a number
NumberInputs(f) ==
  CASE f \in {"zoom", "backgroundZoom"} -> {100, 50, 350, NaN}
    [] f = "positionX" -> {0, 1200, NaN}
    [] f = "positionY" -> {0, 0 - 1200}
    [] f = "positionZ" -> {0, 0 - 600}
    [] f \in {"rotationX", "rotationY"} -> {628, 629, 0 - 10}
    [] f = "scale" -> {200, 250, NaN}

\* onChange of the slider of field f: the setter is called with
\* parseFloat(e.target.value), unchecked
SliderChange(f, raw) ==
  /\ mounted
  /\ step = "preview"
  /\ f \in Fields
  /\ raw \in SliderInputs(f)
  /\ Commit(f, RangeValue(raw, AttrMin(f), AttrMax(f)))
  /\ ev' = Event(f, raw, FieldValue(f))
  /\ UNCHANGED <<build, mounted, step, alerts, cameraVars, photoVars, catalogVars,
                 coverVars, isDragging, dragStart>>

\* onChange of the number input of field f (first build only)
NumberChange(f, raw) ==
  /\ build = 1
  /\ mounted
  /\ step = "preview"
  /\ f \in Fields
  /\ raw \in NumberInputs(f)
  /\ IF NumberAccepted(f, raw)
     THEN Commit(f, raw)
     ELSE UNCHANGED <<overlayVars, zoom, backgroundZoom, pan>>
  /\ ev' = Event(f, raw, FieldValue(f))
  /\ UNCHANGED <<build, mounted, step, alerts, cameraVars, photoVars, catalogVars,
                 coverVars, isDragging, dragStart>>

\* PositionAfterReset with a reset that keeps the depth
PositionAfterResetPlane == <<0, 0, patioPosition[3]>>

\* the argument of setPatioPosition in the onClick of Reset Position
PositionAfterReset == <<0, 0, 0>>

\* the Reset Position button: setPatioPosition([0, 0, 0]); the event records
\* whether the position was away from the origin
ResetPosition ==
  /\ mounted
  /\ step = "preview"
  /\ patioPosition' = PositionAfterReset
  /\ ev' = Event("resetPosition", 0, IF patioPosition = <<0, 0, 0>> THEN 0 ELSE 1)
  /\ UNCHANGED <<build, mounted, step, alerts, cameraVars, photoVars, catalogVars,
                 coverVars, rotationX, rotationY, scale, viewVars>>

---------------------------------------------------------------------------
(* Panning: handleMouseDown, handleMouseMove, handleMouseUp *)

\* container.offsetWidth and offsetHeight of .scene-container, in pixels
Container == [w |-> 720, h |-> 360]

\* e.clientX, e.clientY of the mouse events used
MousePoints == {[x |-> 0, y |-> 0], [x |-> 300, y |-> 150]}

\* (img * zoom * backgroundZoom - container) / 2 / (zoom * backgroundZoom),
\* zoom and backgroundZoom in hundredths; the first build takes the maximum
\* with 0, the second does not
MaxPan(img, container) ==
  LET zb == zoom * backgroundZoom
      bound == (img * zb - 10000 * container) \div (2 * zb)
  IN  IF build = 1 THEN Max(0, bound) ELSE bound

\* border: 1px of .scene-container, on each side
Border == 1

\* img.naturalWidth (first build), img.offsetWidth (second build: the image
\* fills the inside of the container, whose offsetWidth includes the border)
ImgWidth == IF build = 1 THEN photo.w ELSE Container.w - 2 * Border

ImgHeight == IF build = 1 THEN photo.h ELSE Container.h - 2 * Border

\* Math.max(-maxPan, Math.min(maxPan, newPan))
Bounded(newPan, maxPan) == Max(0 - maxPan, Min(maxPan, newPan))

HandleMouseDown(p) ==
  /\ mounted
  /\ step = "preview"
  /\ p \in MousePoints
  /\ IF zoom <= 100 /\ backgroundZoom <= 100
     THEN UNCHANGED <<isDragging, dragStart>>
     ELSE /\ isDragging' = TRUE
          /\ dragStart' = [x |-> p.x - pan.x, y |-> p.y - pan.y]
  /\ ev' = Event("mouseDown", 0, 0)
  /\ UNCHANGED <<build, mounted, step, alerts, cameraVars, photoVars, catalogVars,
                 coverVars, overlayVars, zoom, backgroundZoom, pan>>

HandleMouseMove(p) ==
  /\ mounted
  /\ step = "preview"
  /\ p \in MousePoints
  /\ IF ~isDragging
     THEN pan' = pan
     ELSE pan' = [x |-> Bounded(p.x - dragStart.x, MaxPan(ImgWidth, Container.w)),
                  y |-> Bounded(p.y - dragStart.y, MaxPan(ImgHeight, Container.h))]
  /\ ev' = Event("mouseMove", 0, 0)
  /\ UNCHANGED <<build, mounted, step, alerts, cameraVars, photoVars, catalogVars,
                 coverVars, overlayVars, zoom, backgroundZoom, isDragging, dragStart>>

\* onMouseUp and onMouseLeave
HandleMouseUp ==
  /\ mounted
  /\ step = "preview"
  /\ isDragging' = FALSE
  /\ ev' = Event("mouseUp", 0, 0)
  /\ UNCHANGED <<build, mounted, step, alerts, cameraVars, photoVars, catalogVars,
                 coverVars, overlayVars, zoom, backgroundZoom, pan, dragStart>>

---------------------------------------------------------------------------
(* The application *)

Init ==
  /\ build \in {1, 2}
  /\ mounted = TRUE
  /\ step = "capture"
  /\ photo = NoPhoto
  /\ imageRotation = 0
  /\ exifPending = {}
  /\ nPhotos = 0
  /\ streamRef = 0
  /\ videoSrc = 0
  /\ liveTracks = {}
  /\ nStreams = 0
  /\ pendingRear = (IF build = 1 THEN 1 ELSE 0)
  /\ pendingAny = (IF build = 1 THEN 0 ELSE 1)
  /\ nCalls = 1
  /\ invocations = <<NewInvocation>>
  /\ alerts = {}
  /\ manifest = ManifestPending
  /\ modelOptions = <<>>
  /\ selectedModel = Null
  /\ model = NoScene
  /\ modelCache = {}
  /\ loads = {}
  /\ nLoads = 0
  /\ resolved = {}
  /\ loaded = {}
  /\ patioPosition = <<0, 0, 0>>
  /\ rotationX = Pi
  /\ rotationY = Pi
  /\ scale = 100
  /\ zoom = 100
  /\ backgroundZoom = 100
  /\ pan = Origin
  /\ isDragging = FALSE
  /\ dragStart = Origin
  /\ ev = [op |-> "mount", raw |-> 0, old |-> 0, oldPan |-> Origin]

\* camera requests settling
CameraNext ==
  \/ RearCameraGranted
  \/ RearCameraDenied
  \/ AnyCameraGranted
  \/ AnyCameraDenied

\* photo acquisition by the user
AcquireNext ==
  \/ \E frame \in VideoFrames : CapturePhoto(frame)
  \/ \E file \in Files : HandleFileUpload(file)

CatalogNext ==
  \/ \E o \in ManifestOutcomes : ManifestDone(o)
  \/ \E i \in 1..Len(modelOptions) : SelectModel(i)

CoverNext ==
  \/ \E l \in loads : LoadSucceeds(l)
  \/ \E l \in loads : LoadFails(l)

ControlsNext ==
  \/ \E f \in Fields : \E raw \in SliderInputs(f) : SliderChange(f, raw)
  \/ \E f \in Fields : \E raw \in NumberInputs(f) : NumberChange(f, raw)
  \/ ResetPosition

MouseNext ==
  \/ \E p \in MousePoints : HandleMouseDown(p)
  \/ \E p \in MousePoints : HandleMouseMove(p)
  \/ HandleMouseUp

Next ==
  \/ CameraNext
  \/ RetryCamera
  \/ AcquireNext
  \/ \E e \in exifPending : ExifDone(e)
  \/ Unmount
  \/ CatalogNext
  \/ CoverNext
  \/ ControlsNext
  \/ MouseNext

Spec == Init /\ [][Next]_vars

\* the camera and the photo alone: the manifest stays pending
CameraOnlyNext ==
  \/ CameraNext
  \/ RetryCamera
  \/ AcquireNext
  \/ \E e \in exifPending : ExifDone(e)
  \/ Unmount

SpecCamera == Init /\ [][CameraOnlyNext]_vars

\* the invocations of startCamera: the camera requests, Retry Camera, and the
\* steps between capture and preview
InvocationsNext ==
  \/ CameraNext
  \/ RetryCamera
  \/ \E frame \in VideoFrames : CapturePhoto(frame)
  \/ HandleFileUpload([tag |-> NoTag, w |-> 1000, h |-> 300])
  \/ Unmount

\* every getUserMedia promise settles
FairSpecInvocations == Init /\ [][InvocationsNext]_vars /\ WF_vars(CameraNext)

\* the catalog and the overlay, with the photo uploaded and the camera denied
CatalogOnlyNext ==
  \/ CatalogNext
  \/ CoverNext
  \/ HandleFileUpload([tag |-> NoTag, w |-> 1000, h |-> 300])
  \/ RearCameraDenied
  \/ AnyCameraDenied
  \/ Unmount

SpecCatalog == Init /\ [][CatalogOnlyNext]_vars

\* the controls of the preview step, without the mouse
ControlsOnlyNext ==
  \/ HandleFileUpload([tag |-> NoTag, w |-> 1000, h |-> 300])
  \/ ControlsNext

SpecControls == Init /\ [][ControlsOnlyNext]_vars

\* zooming and panning
ViewOnlyNext ==
  \/ HandleFileUpload([tag |-> NoTag, w |-> 1000, h |-> 300])
  \/ \E f \in {"zoom", "backgroundZoom"} :
        \/ \E raw \in SliderInputs(f) : SliderChange(f, raw)
        \/ \E raw \in NumberInputs(f) : NumberChange(f, raw)
  \/ MouseNext

SpecView == Init /\ [][ViewOnlyNext]_vars

---------------------------------------------------------------------------
(* Properties *)

\* C1: right after capturePhoto has run in the capture step, the step is
\* preview and no camera track obtained by an earlier startCamera call is
\* still active.
C1_CaptureStopsEveryTrack ==
  ev.op = "capturePhoto" => (step = "preview" /\ liveTracks = {})

\* C2: no camera track is active in any state where the step is preview, or
\* after the component has unmounted, however the camera requests interleave
\* with upload, capture and unmount.
C2_NoTrackOutsideCapture ==
  (step = "preview" \/ ~mounted) => liveTracks = {}

\* C8: in the build with the rear-camera request and its fallback, after a
\* total camera failure (the alert was shown) and with no active stream, the
\* only step from capture to preview is a file upload: 'Capture Photo' does
\* not lead to preview.
C8_OnlyUploadAfterCameraFailure ==
  [][(/\ build = 1
      /\ "camera" \in alerts
      /\ liveTracks = {}
      /\ step = "capture"
      /\ step' = "preview")
       => ev'.op = "handleFileUpload"]_vars

\* C6: in the first build, when PatioCover is shown, no load of it is
\* outstanding and no load has failed, the model it holds is the one loaded
\* for the selected path.
C6_ModelIsForSelectedPath ==
  (/\ build = 1
   /\ CoverShown(mounted, step, selectedModel)
   /\ {l \in loads : l.cur} = {}
   /\ "model" \notin alerts)
    => (model # NoScene /\ model.path = selectedModel)

\* C7: in the first build, while no load of the selected path has succeeded
\* in the PatioCover shown (it is in flight or has failed), PatioCover renders
\* the placeholder box, that is, its model is null.
C7_PlaceholderWhileUnresolved ==
  (/\ build = 1
   /\ CoverShown(mounted, step, selectedModel)
   /\ selectedModel \notin resolved)
    => model = NoScene

\* the manifest outcomes without a non-empty models list
LacksModels(o) == o.kind # "models" \/ Len(o.models) = 0

\* C9: once the loader has finished on a manifest outcome without a
\* non-empty models list, modelOptions holds exactly one entry, the built-in
\* default, and selectedModel is that entry's asset path.
C9_DefaultEntryOnFailure ==
  (mounted /\ manifest # ManifestPending /\ LacksModels(manifest))
    => /\ Len(modelOptions) = 1
       /\ modelOptions[1].label \in {"Default Model", "Default Model (Placeholder)"}
       /\ selectedModel = modelOptions[1].value

\* C9 witness: the loader has finished on a payload whose models field is no
\* array, the default entry is selected and the preview step is shown
C9_Witness ==
  /\ mounted
  /\ manifest.kind = "modelsNotArray"
  /\ step = "preview"
  /\ Len(modelOptions) = 1
  /\ selectedModel = modelOptions[1].value

\* C10: once the catalog load has finished, selectedModel is not null and is
\* the asset path of an entry of modelOptions.
C10_SelectedModelIsAnEntry ==
  (mounted /\ manifest # ManifestPending)
    => /\ selectedModel # Null
       /\ \E i \in 1..Len(modelOptions) : modelOptions[i].value = selectedModel

\* the range the specification declares for a field, in hundredths (2 pi is
\* 628.3..., so a value in hundredths is at most 2 pi when it is at most 628)
DeclaredMin(f) ==
  CASE f \in {"zoom", "backgroundZoom"} -> 100
    [] f \in {"positionX", "positionY"} -> 0 - 1000
    [] f = "positionZ" -> 0 - 500
    [] f \in {"rotationX", "rotationY"} -> 0
    [] f = "scale" -> 50

DeclaredMax(f) ==
  CASE f \in {"zoom", "backgroundZoom"} -> 300
    [] f \in {"positionX", "positionY"} -> 1000
    [] f = "positionZ" -> 500
    [] f \in {"rotationX", "rotationY"} -> 628
    [] f = "scale" -> 200

InDeclaredRange(f, v) == ~IsNaN(v) /\ v >= DeclaredMin(f) /\ v <= DeclaredMax(f)

\* C3: an input outside the declared range of its field, or one that is no
\* number, given to any control of the field (slider or number input),
\* leaves the field at its prior value; and every field is within its
\* declared range.
C3_OutOfRangeInputIgnored ==
  /\ (ev.op \in Fields /\ ~InDeclaredRange(ev.op, ev.raw))
       => FieldValue(ev.op) = ev.old
  /\ \A f \in Fields : InDeclaredRange(f, FieldValue(f))

\* C4: whenever zoom and backgroundZoom are both 1, the pan is (0,0).
C4_NoPanAtUnitZoom ==
  (zoom = 100 /\ backgroundZoom = 100) => pan = Origin

\* C5: every step that changes zoom or backgroundZoom leaves the pan at
\* (0,0), whatever the pan was and whether or not a drag is in progress.
C5_ZoomChangeResetsPan ==
  [][(zoom' # zoom \/ backgroundZoom' # backgroundZoom) => pan' = Origin]_vars

\* C5 witness: a zoom field was just changed during a drag that had moved the
\* pan away from the origin, and the pan is (0,0)
C5_Witness ==
  /\ ev.op \in {"zoom", "backgroundZoom"}
  /\ FieldValue(ev.op) # ev.old
  /\ ev.oldPan # Origin
  /\ isDragging
  /\ pan = Origin

\* C11: in every state where the step is preview, modelOptions is not empty,
\* however the fetch of the manifest interleaves with capture and upload.
C11_OptionsBeforePreview ==
  (mounted /\ step = "preview") => Len(modelOptions) > 0

\* C12: in every state where the step is preview the photo is not null; every
\* step from capture to preview is capturePhoto or handleFileUpload and sets
\* the photo in that step; and no step clears a photo once set.
C12_PhotoInPreview ==
  /\ [](step = "preview" => photo # NoPhoto)
  /\ [][(step = "capture" /\ step' = "preview")
          => /\ ev'.op \in {"capturePhoto", "handleFileUpload"}
             /\ photo' # NoPhoto
             /\ photo'.id = nPhotos']_vars
  /\ [][photo # NoPhoto => photo' # NoPhoto]_vars

\* C12 witness: the preview step entered a second time, by a camera capture,
\* after a late failure of the camera requests had led back to capture
C12_Witness ==
  /\ step = "preview"
  /\ photo.kind = "camera"
  /\ photo.id = 2
  /\ "camera" \in alerts

Abs(n) == IF n < 0 THEN 0 - n ELSE n

\* the bound the specification gives for the pan on an axis:
\* max(0, (imageSize * zoom * backgroundZoom - containerSize) / 2
\*        / (zoom * backgroundZoom)), zoom and backgroundZoom in hundredths
DeclaredMaxPan(img, container) ==
  Max(0, (img * zoom * backgroundZoom - 10000 * container)
           \div (2 * zoom * backgroundZoom))

\* C13: after every mouse move that commits a pan, |pan.x| <= maxPanX and
\* |pan.y| <= maxPanY for the declared bound; so the pan is 0 on an axis on
\* which the zoomed image is not larger than the container.
C13_PanWithinBound ==
  (ev.op = "mouseMove" /\ isDragging)
    => /\ Abs(pan.x) <= DeclaredMaxPan(ImgWidth, Container.w)
       /\ Abs(pan.y) <= DeclaredMaxPan(ImgHeight, Container.h)

\* C14: in the first build, once a load of a path has succeeded, a selection
\* of that path starts no load, and the model then rendered is a scene that
\* was loaded for that path.
C14_LoadedOncePerPath ==
  [][(/\ build = 1
      /\ ev'.op = "selectModel"
      /\ \E s \in loaded : s.path = selectedModel')
       => /\ nLoads' = nLoads
          /\ model' \in loaded
          /\ model'.path = selectedModel']_vars

\* C15: in the first build every invocation of startCamera issues one
\* rear-camera request and, only after that request has failed, one
\* unconstrained request, never more than two requests; an invocation that
\* ends with a stream has stored it in streamRef.current, one that ends
\* otherwise has alerted; every step into the capture step invokes
\* startCamera; and every invocation eventually ends.
C15_StartCameraRequests ==
  /\ [](build = 1 =>
          \A i \in 1..Len(invocations) :
             LET c == invocations[i]
             IN  /\ c.rear = 1
                 /\ c.any <= 1
                 /\ c.any = 1 => c.failed >= 1
                 /\ c.rear + c.any <= 2
                 /\ c.end = "stream" => c.stream # 0
                 /\ c.end = "warning" => (c.failed = 2 /\ "camera" \in alerts))
  /\ [][build = 1 =>
          \A i \in 1..Len(invocations) :
             (invocations[i].end = "pending" /\ invocations'[i].end = "stream")
               => streamRef' = invocations'[i].stream]_vars
  /\ [][(build = 1 /\ step # "capture" /\ step' = "capture")
          => /\ nCalls' = nCalls + 1
             /\ Len(invocations') = Len(invocations) + 1]_vars
  /\ \A i \in 1..MaxStartCamera :
        [](Len(invocations) >= i
             => <>(Len(invocations) >= i /\ invocations[i].end # "pending"))

\* C15 witness: the first build is back in the capture step after a late
\* failure of both requests of one invocation; another invocation has ended
\* with its stream stored, and the invocation started by the step into
\* capture is awaiting its rear-camera request
C15_Witness ==
  /\ build = 1
  /\ step = "capture"
  /\ ev.op = "anyCameraDenied"
  /\ nPhotos > 0
  /\ \E i \in 1..Len(invocations) :
        /\ invocations[i].end = "warning"
        /\ invocations[i].rear = 1
        /\ invocations[i].any = 1
  /\ \E j \in 1..Len(invocations) : invocations[j].end = "stream"
  /\ Len(invocations) \in AtRear(invocations)

\* C16: when the catalog load succeeds, selectedModel becomes the asset path
\* (the value) of the first manifest entry; and a selection of another entry
\* by the user sets selectedModel to that entry's asset path and changes no
\* field of the transform state.
C16_SelectionSetsPath ==
  /\ [][(ev'.op = "manifestDone" /\ mounted /\ ~ManifestThrows(manifest'))
          => selectedModel' = manifest'.models[1].value]_vars
  /\ [][ev'.op = "selectModel"
          => /\ selectedModel' = modelOptions[ev'.raw].value
             /\ UNCHANGED <<pan, zoom, backgroundZoom, patioPosition, rotationX,
                            rotationY, scale>>]_vars

\* C17: Reset Position sets the position to (0,0,0) from any prior state and
\* leaves rotationX, rotationY, scale, zoom, backgroundZoom, pan and
\* selectedModel unchanged.
C17_ResetPositionOnly ==
  [][ev'.op = "resetPosition"
       => /\ patioPosition' = <<0, 0, 0>>
          /\ UNCHANGED <<rotationX, rotationY, scale, zoom, backgroundZoom, pan,
                         selectedModel>>]_vars

\* C17 witness: Reset Position has just run on a position away from the
\* origin on every axis, with rotation, scale and both zooms changed from
\* their initial values
C17_Witness ==
  /\ ev.op = "resetPosition"
  /\ ev.old = 1
  /\ patioPosition = <<0, 0, 0>>
  /\ rotationX # Pi
  /\ rotationY # Pi
  /\ scale # 100
  /\ zoom # 100
  /\ backgroundZoom # 100

\* the correction the specification gives for an orientation tag
DeclaredCorrection(tag) ==
  IF tag = 6 THEN 90 ELSE IF tag = 3 THEN 180 ELSE IF tag = 8 THEN 0 - 90 ELSE 0

\* C18: the orientation correction committed by the metadata callback of an
\* uploaded file is +90 for tag 6, 180 for tag 3, -90 for tag 8 and 0 for any
\* other tag and for a file without a tag; the correction held is always one
\* of 0, 90, 180, -90.
C18_OrientationCorrection ==
  /\ (ev.op = "exifDone" /\ mounted) => imageRotation = DeclaredCorrection(ev.raw)
  /\ imageRotation \in {0, 90, 180, 0 - 90}

\* C18 witness: the callback has just committed -90 for a file with tag 8
\* shown in the preview step
C18_Witness ==
  /\ ev.op = "exifDone"
  /\ ev.raw = 8
  /\ mounted
  /\ step = "preview"
  /\ photo.kind = "file"
  /\ photo.tag = 8
  /\ imageRotation = 0 - 90

\* C19: in the first build, in every state of the preview step in which no
\* metadata callback is outstanding, the rotation applied to the background
\* is the correction derived for the photo shown, 0 for a camera capture.
C19_CorrectionOfShownPhoto ==
  (build = 1 /\ mounted /\ step = "preview" /\ exifPending = {})
    => imageRotation = DeclaredCorrection(photo.tag)

\* C20: in the preview step, the settling of a camera request started earlier
\* (granted, or the rear-camera request and then the fallback rejected)
\* changes neither the step nor the photo.
C20_PreviewKeptOnCameraCompletion ==
  [][(/\ mounted
      /\ step = "preview"
      /\ ev'.op \in {"rearCameraGranted", "rearCameraDenied", "anyCameraGranted",
                     "anyCameraDenied"})
       => (step' = "preview" /\ photo' = photo)]_vars

=============================================================================
